---- MODULE Spec2Model ----
(***************************************************************************)
(* AppSec-Gym: the solution-validation engine of the CLI trainer.          *)
(*                                                                         *)
(* Model of cli/src/core/securityValidator.js (class SecurityValidator):   *)
(* one call of validateChallengeSolution runs the pattern stage, the       *)
(* static-analysis stage and the dependency stage in that order and then   *)
(* derives passed and grade.                                               *)
(*                                                                         *)
(* Numbers.  JavaScript scores are doubles; the only non-integers the code *)
(* produces are 60*0.7, 25*0.5 and 15*0.8, i.e. 42, 12.5 and 12 (the two   *)
(* products with 0.7 and 0.8 round to exactly 42 and 12 in IEEE-754).      *)
(* Every score of the model is therefore an integer number of TENTHS of a  *)
(* point: 125 stands for 12.5 points, 800 for the 80-point threshold.      *)
(*                                                                         *)
(* Source text.  A submitted text is a sequence of source lines taken from *)
(* a lexicon of four concrete JavaScript lines (Snippet); the text is the  *)
(* lines joined with "\n".  The number of matches of every regular         *)
(* expression of the registry in every line (SnippetMatches) was computed  *)
(* by running the source's expressions on the line, and no match of any    *)
(* expression spans two lines of the lexicon, so String.match on the text  *)
(* returns the per-line matches in order.                                  *)
(***************************************************************************)
EXTENDS Integers, Sequences, FiniteSets, TLC

\* ------------------------------------------------------------------ bounds
\* most source lines in a submitted text
MaxLen == 2
\* most security diagnostics in one linter report
MaxDiag == 6
\* most vulnerable packages in one audit report
MaxVuln == 6

Max(a, b) == IF a >= b THEN a ELSE b

\* ------------------------------------------------------- the rule registry
\* initializeValidationRules: the four rule sets; a pattern is named by the
\* comment the source puts next to its regular expression.
validationRules ==
  [ k \in {"sql-injection", "xss", "auth", "path-traversal"} |->
      CASE k = "sql-injection" ->
             [ name |-> "SQL Injection Protection",
               vulnerablePatterns |->
                 << "String concatenation with quotes",
                    "Template literal injection",
                    "Direct query concatenation",
                    "WHERE clause concatenation" >>,
               securePatterns |->
                 << "Parameterized queries with arrays",
                    "Query with parameter array",
                    "Prepared statements",
                    "Escaped input" >> ]
        [] k = "xss" ->
             [ name |-> "XSS Protection",
               vulnerablePatterns |->
                 << "innerHTML with template literals",
                    "innerHTML concatenation",
                    "outerHTML manipulation",
                    "document.write usage",
                    "eval() usage" >>,
               securePatterns |->
                 << "textContent usage",
                    "innerText usage",
                    "DOMPurify sanitization",
                    "HTML escaping",
                    "Safe DOM creation" >> ]
        [] k = "auth" ->
             [ name |-> "Authentication Security",
               vulnerablePatterns |->
                 << "Hardcoded secrets",
                    "Weak JWT secrets",
                    "Plain text password comparison",
                    "Algorithm none",
                    "Long expiration" >>,
               securePatterns |->
                 << "Environment variables",
                    "bcrypt usage",
                    "Algorithm whitelist",
                    "Short expiration",
                    "Cryptographically secure random" >> ]
        [] OTHER ->
             [ name |-> "Path Traversal Protection",
               vulnerablePatterns |->
                 << "Direct path join with user input",
                    "Directory traversal sequences",
                    "File read with concatenation",
                    "Dynamic require" >>,
               securePatterns |->
                 << "Path basename usage",
                    "Path relative validation",
                    "Path prefix validation",
                    "Whitelist validation",
                    "Custom path validation" >> ] ]

\* ------------------------------------------------------------ source text
\* The lexicon of source lines:
\*   concat       const query = "SELECT * FROM users WHERE username = '" +
\*                username + "' AND password = '" + password + "'";
\*   unsafe       document.write(fs.readFileSync("../" + name, enc));
\*                const SECRET = 'secret123';
\*   safe         db.query(sql, [path.basename(process.env.NAME)]);
\*                el.textContent = text;
\*   placeholder  const query = "SELECT * FROM users WHERE username = ?";
Snippet == {"concat", "unsafe", "safe", "placeholder"}

\* pattern |-> number of matches of that regular expression in the line
\* (patterns that do not match the line are absent)
SnippetMatches(line) ==
  CASE line = "concat" ->
         ("String concatenation with quotes" :> 2)
    [] line = "unsafe" ->
         ("String concatenation with quotes" :> 1) @@
         ("document.write usage" :> 1) @@
         ("Hardcoded secrets" :> 1) @@
         ("Directory traversal sequences" :> 1) @@
         ("File read with concatenation" :> 1)
    [] line = "safe" ->
         ("Query with parameter array" :> 1) @@
         ("textContent usage" :> 1) @@
         ("Environment variables" :> 1) @@
         ("Path basename usage" :> 1)
    [] OTHER ->
         ("Template literal injection" :> 0)

\* content.match(pattern) for a global regular expression: the number of
\* matches in the whole text (0 stands for the null that match returns)
RECURSIVE match(_, _)
match(text, pattern) ==
  IF text = << >> THEN 0
  ELSE (IF pattern \in DOMAIN SnippetMatches(Head(text))
          THEN SnippetMatches(Head(text))[pattern] ELSE 0)
       + match(Tail(text), pattern)

\* texts of at most n lines
Texts(n) == UNION { [1..m -> Snippet] : m \in 0..n }

\* ------------------------------------------------------------ rule lookup
\* Names every JavaScript object inherits from Object.prototype: the object
\* literal `mapping` of mapCategoryToRules answers a lookup of one of them
\* with the inherited member, which is truthy and is no registry key.
ObjectPrototypeKeys == {"constructor", "toString", "valueOf", "__proto__"}

\* what such a lookup yields, as a value that is no key of the registry
InheritedMember == "[inherited member]"

\* the object literal `mapping` of mapCategoryToRules
mapping ==
  [ c \in {"injection", "xss", "broken-auth", "broken-access",
           "security-misconfig", "xxe"} |->
      CASE c = "injection" -> "sql-injection"
        [] c = "xss" -> "xss"
        [] c = "xxe" -> "path-traversal"
        [] OTHER -> "auth" ]

\* mapCategoryToRules: mapping[category] || 'sql-injection'
mapCategoryToRules(category) ==
  IF category \in DOMAIN mapping THEN mapping[category]
  ELSE IF category \in ObjectPrototypeKeys THEN InheritedMember
  ELSE "sql-injection"

\* the registry key runPatternValidation ends up reading:
\* validationRules.get(category) || validationRules.get(mapCategoryToRules(category))
rulesKey(category) ==
  IF category \in DOMAIN validationRules THEN category
  ELSE mapCategoryToRules(category)

\* A category that is not a string: a challenge definition file may give
\* `category: {toString: 1}` (a YAML mapping, which loadChallenges accepts as
\* it is truthy).  It is no key of the registry, and using it as the property
\* key of `mapping` throws a TypeError (it cannot be converted to a primitive).
UnconvertibleCategory == "{toString: 1}"

\* whether mapCategoryToRules(category) throws
lookupThrows(category) == category = UnconvertibleCategory

\* whether that lookup yields a rule set (`rules` is not undefined)
hasRules(category) == rulesKey(category) \in DOMAIN validationRules

\* ----------------------------------------------------------------- inputs
\* category strings a challenge definition may carry: the registry keys, the
\* alias keys, an unknown one and one that names an inherited member
Categories ==
  { "sql-injection", "xss", "auth", "path-traversal",
    "injection", "broken-auth", "broken-access", "security-misconfig", "xxe",
    "foo-bar", "constructor", UnconvertibleCategory }

\* the challenge argument: a challenge definition, or undefined
Challenges ==
  { [defined |-> TRUE, category |-> c] : c \in Categories }
  \cup { [defined |-> FALSE, category |-> "undefined"] }

\* the filePaths argument: the files of the attempt (none when the challenge
\* definition lists no files), all in the one workspace directory
FilePathLists == { << >>, << "current/vulnerable.js" >> }

\* ----------------------------------------------------------- the workspace
\* package.json of the workspace directory: absent, present but not valid
\* JSON, or present with a set of devDependencies
PackageJsons ==
  { [exists |-> FALSE, valid |-> FALSE, devDependencies |-> {}],
    [exists |-> TRUE,  valid |-> FALSE, devDependencies |-> {}] }
  \cup { [exists |-> TRUE, valid |-> TRUE, devDependencies |-> d] :
           d \in SUBSET {"eslint", "eslint-plugin-security"} }

\* .eslintrc.json of the workspace directory: absent, written by the user,
\* or the security configuration setupESLintSecurity writes
EslintConfigs == {"absent", "user", "security-default"}

\* ------------------------------------------------------ external tool output
\* one ESLint diagnostic: ruleId ("null" for a diagnostic without a rule) and
\* severity (1 warning, 2 error)
SecurityDiag(sev) == [ruleId |-> "security/detect-object-injection", severity |-> sev]
OtherDiag == [ruleId |-> "no-unused-vars", severity |-> 1]
ParseDiag == [ruleId |-> "null", severity |-> 2]

\* the messages of the one linted file
DiagLists ==
  { [i \in 1..n |-> SecurityDiag(2)] : n \in 0..MaxDiag }
  \cup { << OtherDiag >>, << ParseDiag >>,
         << OtherDiag, SecurityDiag(1) >>,
         << SecurityDiag(1), SecurityDiag(2) >> }

\* what `npx eslint ... --format json` prints: nothing (not installed, or it
\* crashed), text that is not JSON, or a JSON array of per-file results (of
\* no file, of one file, or of two files)
EslintStdouts ==
  { [kind |-> "empty", files |-> << >>],
    [kind |-> "nonjson", files |-> << >>],
    [kind |-> "json", files |-> << >>] }
  \cup { [kind |-> "json", files |-> << [messages |-> m] >>] : m \in DiagLists }
  \cup { [kind |-> "json",
          files |-> << [messages |-> << SecurityDiag(2) >>],
                       [messages |-> << OtherDiag, SecurityDiag(1) >>] >>] }

\* what `npm audit --json` prints: nothing, text that is not JSON, or a JSON
\* object; its vulnerabilities member (absent in npm's error report, which
\* reads as {}) lists the vulnerable packages with their severity
AuditStdouts ==
  { [kind |-> "empty", vulnerabilities |-> << >>],
    [kind |-> "nonjson", vulnerabilities |-> << >>],
    [kind |-> "json-error", vulnerabilities |-> << >>] }
  \cup { [kind |-> "json",
          vulnerabilities |-> [i \in 1..n |-> [package |-> "pkg-" \o ToString(i), severity |-> "high"]]] :
           n \in 0..MaxVuln }
  \cup { [kind |-> "json",
          vulnerabilities |-> << [package |-> "pkg-1", severity |-> "moderate"] >>],
         [kind |-> "json",
          vulnerabilities |-> << [package |-> "pkg-1", severity |-> "critical"],
                                 [package |-> "pkg-2", severity |-> "low"] >>] }

\* the subprocess has not been started in this call
EslintNotRun == [kind |-> "not-run", files |-> << >>]
AuditNotRun == [kind |-> "not-run", vulnerabilities |-> << >>]

\* runESLint: JSON.parse(stdout) when stdout is non-empty JSON, else []
runESLint(stdout) == IF stdout.kind = "json" THEN stdout.files ELSE << >>

\* runNpmAudit: whether the promise resolves to an object (else to null)
auditResolved(stdout) == stdout.kind \in {"json", "json-error"}

\* auditResults.vulnerabilities || {}
auditVulnerabilities(stdout) == stdout.vulnerabilities

\* ---------------------------------------------------------------- scoring
\* Scores are in tenths of a point (see the head of the module).
maxPatternScore == 60
maxStaticScore == 25
maxDepScore == 15

\* sum over the patterns of a list of the number of matches of each
RECURSIVE countMatches(_, _)
countMatches(text, patterns) ==
  IF patterns = << >> THEN 0
  ELSE match(text, Head(patterns)) + countMatches(text, Tail(patterns))

\* variant: every vulnerable match costs 10 points instead of 20
patternScoreOf_penalty10(vulnerable, secure) ==
  IF vulnerable = 0 /\ secure > 0 THEN maxPatternScore * 10
  ELSE IF vulnerable = 0 THEN maxPatternScore * 7
  ELSE Max(0, maxPatternScore - (vulnerable * 10)) * 10

\* runPatternValidation, "Calculate pattern score"
patternScoreOf(vulnerable, secure) ==
  IF vulnerable = 0 /\ secure > 0 THEN maxPatternScore * 10
  ELSE IF vulnerable = 0 THEN maxPatternScore * 7
  ELSE Max(0, maxPatternScore - (vulnerable * 20)) * 10

\* variant: the deduction is not floored at 0
staticScoreOf_unclamped(n) ==
  IF n = 0 THEN maxStaticScore * 10
  ELSE (maxStaticScore - (n * 5)) * 10

\* runStaticAnalysis: the score for n security diagnostics
staticScoreOf(n) ==
  IF n = 0 THEN maxStaticScore * 10
  ELSE Max(0, maxStaticScore - (n * 5)) * 10

\* variant: partial credit of 0.6 instead of 0.5
staticPartialCredit_sixTenths == maxStaticScore * 6

\* runStaticAnalysis, catch: maxStaticScore * 0.5
staticPartialCredit == maxStaticScore * 5

\* variant: every vulnerable package costs 5 points instead of 3
depScoreOf_penalty5(n) ==
  IF n = 0 THEN maxDepScore * 10
  ELSE Max(0, maxDepScore - (n * 5)) * 10

\* runDependencyScanning: the score for n vulnerable packages
depScoreOf(n) ==
  IF n = 0 THEN maxDepScore * 10
  ELSE Max(0, maxDepScore - (n * 3)) * 10

\* runDependencyScanning, catch: maxDepScore * 0.8
depPartialCredit == maxDepScore * 8

\* variant: strict comparison with the threshold
passedOf_strict(score) == score > 80 * 10

\* validateChallengeSolution: results.score >= 80
passedOf(score) == score >= 80 * 10

\* calculateGrade
calculateGrade(score) ==
  IF score >= 95 * 10 THEN "A+"
  ELSE IF score >= 90 * 10 THEN "A"
  ELSE IF score >= 85 * 10 THEN "A-"
  ELSE IF score >= 80 * 10 THEN "B+"
  ELSE IF score >= 75 * 10 THEN "B"
  ELSE IF score >= 70 * 10 THEN "B-"
  ELSE IF score >= 65 * 10 THEN "C+"
  ELSE IF score >= 60 * 10 THEN "C"
  ELSE IF score >= 55 * 10 THEN "C-"
  ELSE "F"

\* the result object validateChallengeSolution starts from; it has no grade
\* member until one is assigned
freshResults ==
  [ passed |-> FALSE, score |-> 0, maxScore |-> 100, grade |-> "undefined",
    checks |-> << >>, securityIssues |-> << >>, recommendations |-> << >> ]

\* a ValidationCheck; message is the leading mark of the source's message
Check(name, passed, message) ==
  [name |-> name, passed |-> passed, message |-> message]

\* a SecurityIssue; id is the pattern, the rule id or the package
Issue(type, severity, id) == [type |-> type, severity |-> severity, id |-> id]

\* ------------------------------------------------------------------ state
VARIABLES
  pc,              \* where the call of validateChallengeSolution stands
  challenge,       \* argument: the challenge definition
  filePaths,       \* argument: the files of the attempt
  content,         \* argument: the concatenated file contents
  results,         \* the result object under construction / returned
  error,           \* the exception validateChallengeSolution caught, or "none"
  vulnerableCount, \* runPatternValidation's local
  secureCount,     \* runPatternValidation's local
  patternScore,    \* runPatternValidation's local
  staticScore,     \* runStaticAnalysis's local
  depScore,        \* runDependencyScanning's local
  eslintStdout,    \* what the linter subprocess printed in this call
  auditStdout,     \* what the audit subprocess printed in this call
  eslintrc,        \* workspace file .eslintrc.json
  packageJson,     \* workspace file package.json
  written,         \* the workspace files setupESLintSecurity wrote in this call
  previous,        \* the preceding call when this call repeats it, else NoPrevious
  caller,          \* who awaits the result: "api" or "checkSolution"
  challenges,      \* ChallengeManager: the loaded challenge definitions
  currentChallenge,\* ChallengeManager: the current attempt, or NoChallenge
  persisted,       \* ChallengeManager: currentChallenge as stored in .current.json
  sourceFiles,     \* the source files of the workspace: name |-> text
  lastResult,      \* what the last ChallengeManager operation returned or threw
  progress,        \* ProgressTracker: this.progress
  progressFile,    \* ProgressTracker: the progress file
  origin,          \* ProgressTracker: "fresh" or "file", where progress came from
  today            \* the day of the clock, as a day number

vars ==
  << pc, challenge, filePaths, content, results, error, vulnerableCount,
     secureCount, patternScore, staticScore, depScore, eslintStdout,
     auditStdout, eslintrc, packageJson, written, previous, caller,
     challenges, currentChallenge, persisted, sourceFiles, lastResult,
     progress, progressFile, origin, today >>

args == << challenge, filePaths, content >>
workspace == << eslintrc, packageJson >>
patternLocals == << vulnerableCount, secureCount, patternScore >>
manager == << challenges, currentChallenge, persisted, sourceFiles, lastResult >>
tracker == << progress, progressFile, origin, today >>

\* the challenge ids the tracker is told about
TrackedIds == {"sql-injection-basic", "stored-xss-comments"}

\* the day on which the tracker is constructed
FirstDay == 3

\* lastActivity: null
NoActivity == 0

\* counter values that are not numbers: a field that was never assigned, the
\* result of incrementing it, and what the progress file holds for that result
Undefined == -1
NaN == -2
Null == -3

\* a challenge the tracker has no entry for
NoEntry == [exists |-> FALSE, completed |-> FALSE, attempts |-> Undefined, hints |-> Undefined]

\* getDefaultProgress
getDefaultProgress ==
  [ challenges |-> [id \in TrackedIds |-> NoEntry],
    stats |-> [ totalCompleted |-> 0, totalStarted |-> 0, currentStreak |-> 0,
                longestStreak |-> 0, lastActivity |-> NoActivity ] ]

\* there is no progress file
NoProgressFile == [exists |-> FALSE, progress |-> getDefaultProgress]

\* the tracker before it is used
trackerFresh ==
  /\ progress = getDefaultProgress
  /\ progressFile = NoProgressFile
  /\ origin = "fresh"
  /\ today = FirstDay

\* no call precedes this one with the same arguments
NoPrevious ==
  [ repeats |-> FALSE, results |-> freshResults,
    eslintStdout |-> EslintNotRun, auditStdout |-> AuditNotRun ]

\* no current attempt (currentChallenge is null)
NoChallenge ==
  [ id |-> "null", status |-> "none", filePaths |-> << >>, score |-> 0,
    grade |-> "undefined" ]

\* no ChallengeManager operation has returned yet
NoResult ==
  [ op |-> "none", outcome |-> "none", passed |-> FALSE, detail |-> "none",
    hint |-> "none", hintNumber |-> 0, totalHints |-> 0 ]

\* A validator has been constructed and no validation has been requested; the
\* workspace is whatever the attempt left there.
Init ==
  /\ pc = "idle"
  /\ challenge = [defined |-> FALSE, category |-> "undefined"]
  /\ filePaths = << >>
  /\ content = << >>
  /\ results = freshResults
  /\ error = "none"
  /\ vulnerableCount = 0
  /\ secureCount = 0
  /\ patternScore = 0
  /\ staticScore = 0
  /\ depScore = 0
  /\ eslintStdout = EslintNotRun
  /\ auditStdout = AuditNotRun
  /\ eslintrc \in {"absent", "user"}
  /\ packageJson \in PackageJsons
  /\ written = {}
  /\ previous = NoPrevious
  /\ caller = "api"
  /\ challenges = << >>
  /\ currentChallenge = NoChallenge
  /\ persisted = NoChallenge
  /\ sourceFiles = << >>
  /\ lastResult = NoResult
  /\ trackerFresh

\* validateChallengeSolution is entered: a fresh result object
Call ==
  /\ pc = "idle"
  /\ challenge' \in Challenges
  /\ filePaths' \in FilePathLists
  /\ content' \in Texts(MaxLen)
  /\ results' = freshResults
  /\ error' = "none"
  /\ vulnerableCount' = 0
  /\ secureCount' = 0
  /\ patternScore' = 0
  /\ staticScore' = 0
  /\ depScore' = 0
  /\ eslintStdout' = EslintNotRun
  /\ auditStdout' = AuditNotRun
  /\ written' = {}
  /\ previous' = NoPrevious
  /\ pc' = "pattern"
  /\ caller = "api"
  /\ UNCHANGED << workspace, caller, manager, tracker >>

\* one issue per vulnerable pattern that matches at least once, in the order
\* of the pattern list
RECURSIVE vulnerabilityIssues(_, _)
vulnerabilityIssues(text, patterns) ==
  IF patterns = << >> THEN << >>
  ELSE (IF match(text, Head(patterns)) > 0
          THEN << Issue("vulnerability", "high", Head(patterns)) >>
          ELSE << >>)
       \o vulnerabilityIssues(text, Tail(patterns))

\* variant: the catch block records nothing
catchValidationError_silent(res) == res

\* the catch block of validateChallengeSolution
catchValidationError(res) ==
  [res EXCEPT !.checks = Append(@, Check("Validation Error", FALSE, "Validation failed"))]

\* runPatternValidation, and the catch block of validateChallengeSolution
\* when it throws (reading the category of an undefined challenge, or looking
\* up a category that cannot be a property key)
RunPatternValidation ==
  /\ pc = "pattern"
  /\ IF ~challenge.defined \/ lookupThrows(challenge.category)
       THEN /\ error' = "TypeError"
            /\ results' = catchValidationError(results)
            /\ pc' = "done"
            /\ UNCHANGED patternLocals
     ELSE IF ~hasRules(challenge.category)
       THEN /\ results' = [results EXCEPT !.checks =
                 Append(@, Check("Pattern Validation", FALSE, "No validation rules found"))]
            /\ pc' = "static"
            /\ UNCHANGED << error, patternLocals >>
     ELSE LET rules == validationRules[rulesKey(challenge.category)]
              v == countMatches(content, rules.vulnerablePatterns)
              s == countMatches(content, rules.securePatterns)
              score == patternScoreOf(v, s)
          IN /\ vulnerableCount' = v
             /\ secureCount' = s
             /\ patternScore' = score
             /\ results' = [results EXCEPT
                  !.score = @ + score,
                  !.securityIssues = @ \o vulnerabilityIssues(content, rules.vulnerablePatterns),
                  !.checks = Append(@, Check(rules.name, v = 0,
                                IF v = 0 THEN "No vulnerabilities detected"
                                         ELSE "Found potential vulnerabilities"))]
             /\ pc' = "static"
             /\ UNCHANGED error
  /\ UNCHANGED << args, staticScore, depScore, eslintStdout, auditStdout, workspace,
                  written, previous, caller, manager, tracker >>

\* ------------------------------------------------------- static analysis
\* variant: the security configuration is written over an existing file
setupESLintSecurity_overwrite(rc) == "security-default"

\* setupESLintSecurity, the configuration file: written only when absent
setupESLintSecurity(rc) == IF rc = "absent" THEN "security-default" ELSE rc

\* ensureSecurityDependencies reads package.json when it exists; reading one
\* that is not valid JSON throws
ensureThrows(pkg) == pkg.exists /\ ~pkg.valid

\* ensureSecurityDependencies: the two development dependencies are added
\* when missing
ensureSecurityDependencies(pkg) ==
  IF pkg.exists /\ pkg.valid
    THEN [pkg EXCEPT !.devDependencies = @ \cup {"eslint", "eslint-plugin-security"}]
    ELSE pkg

\* the files setupESLintSecurity writes: the configuration when there is none
\* and, unless reading package.json throws first, package.json when one of the
\* two development dependencies is missing (needsUpdate)
setupWrites(rc, pkg) ==
  (IF rc = "absent" THEN {".eslintrc.json"} ELSE {})
  \cup (IF pkg.exists /\ pkg.valid
            /\ ~({"eslint", "eslint-plugin-security"} \subseteq pkg.devDependencies)
          THEN {"package.json"} ELSE {})

\* what the linter may print in this call: anything, or what it printed in
\* the preceding call when this call repeats it with the tools unchanged
eslintAnswers ==
  IF previous.repeats /\ previous.eslintStdout.kind # "not-run"
    THEN {previous.eslintStdout} ELSE EslintStdouts

\* variant: every diagnostic that has a rule id counts
isSecurityDiag_anyRule(msg) == msg.ruleId # "null"

\* msg.ruleId && msg.ruleId.includes('security')
isSecurityDiag(msg) == msg.ruleId \in {"security/detect-object-injection"}

\* eslintResults.flatMap(file => file.messages.filter(...))
RECURSIVE securityDiags(_)
securityDiags(files) ==
  IF files = << >> THEN << >>
  ELSE SelectSeq(Head(files).messages, isSecurityDiag) \o securityDiags(Tail(files))

\* one 'static-analysis' issue per security diagnostic
staticIssues(diags) ==
  [ i \in 1..Len(diags) |->
      Issue("static-analysis",
            IF diags[i].severity = 2 THEN "high" ELSE "medium",
            diags[i].ruleId) ]

\* the catch block of runStaticAnalysis
staticCatch(res) ==
  [res EXCEPT
     !.score = @ + staticPartialCredit,
     !.checks = Append(@, Check("Static Analysis", FALSE,
                              "Static analysis tools not available - partial validation only"))]

\* runStaticAnalysis with setupESLintSecurity and runESLint
RunStaticAnalysis ==
  /\ pc = "static"
  /\ pc' = "dependency"
  /\ IF filePaths = << >>
       THEN \* path.dirname(undefined) throws
            /\ staticScore' = staticPartialCredit
            /\ results' = staticCatch(results)
            /\ UNCHANGED << eslintStdout, workspace, written >>
     ELSE IF ensureThrows(packageJson)
       THEN \* the configuration is written, then reading package.json throws
            /\ eslintrc' = setupESLintSecurity(eslintrc)
            /\ written' = setupWrites(eslintrc, packageJson)
            /\ staticScore' = staticPartialCredit
            /\ results' = staticCatch(results)
            /\ UNCHANGED << eslintStdout, packageJson >>
     ELSE \E stdout \in eslintAnswers :
            LET eslintResults == runESLint(stdout)
                diags == securityDiags(eslintResults)
                n == Len(diags)
            IN /\ eslintrc' = setupESLintSecurity(eslintrc)
               /\ packageJson' = ensureSecurityDependencies(packageJson)
               /\ written' = setupWrites(eslintrc, packageJson)
               /\ eslintStdout' = stdout
               /\ IF Len(eslintResults) > 0
                    THEN /\ staticScore' = staticScoreOf(n)
                         /\ results' = [results EXCEPT
                              !.score = @ + staticScoreOf(n),
                              !.checks = Append(@, Check("Static Analysis (ESLint Security)", n = 0,
                                   IF n = 0 THEN "No static analysis security issues found"
                                            ELSE "Found static analysis issues")),
                              !.securityIssues = @ \o staticIssues(diags)]
                    ELSE /\ staticScore' = 0
                         /\ UNCHANGED results
  /\ UNCHANGED << args, error, patternLocals, depScore, auditStdout,
                  previous, caller, manager, tracker >>

\* runStaticAnalysis up to runESLint when the linter subprocess neither prints
\* nor exits: exec is given no timeout, its callback never runs and the
\* promise of runESLint is never settled
EslintNeverExits ==
  /\ pc = "static"
  /\ filePaths # << >>
  /\ ~ensureThrows(packageJson)
  /\ ~previous.repeats
  /\ eslintrc' = setupESLintSecurity(eslintrc)
  /\ packageJson' = ensureSecurityDependencies(packageJson)
  /\ written' = setupWrites(eslintrc, packageJson)
  /\ eslintStdout' = [kind |-> "never-exits", files |-> << >>]
  /\ pc' = "waiting"
  /\ UNCHANGED << args, results, error, patternLocals, staticScore, depScore,
                  auditStdout, previous, caller, manager, tracker >>

\* ----------------------------------------------------- dependency scanning
\* one 'dependency' issue per vulnerable package
dependencyIssues(vulns) ==
  [ i \in 1..Len(vulns) |-> Issue("dependency", vulns[i].severity, vulns[i].package) ]

\* the catch block of runDependencyScanning
depCatch(res) ==
  [res EXCEPT
     !.score = @ + depPartialCredit,
     !.checks = Append(@, Check("Dependency Scan", TRUE,
                              "Dependency scan skipped - no package.json or npm not available"))]

\* what the audit may print in this call (see eslintAnswers)
auditAnswers ==
  IF previous.repeats /\ previous.auditStdout.kind # "not-run"
    THEN {previous.auditStdout} ELSE AuditStdouts

\* runDependencyScanning with runNpmAudit
RunDependencyScanning ==
  /\ pc = "dependency"
  /\ pc' = "finish"
  /\ IF filePaths = << >>
       THEN \* path.dirname(undefined) throws
            /\ depScore' = depPartialCredit
            /\ results' = depCatch(results)
            /\ UNCHANGED auditStdout
     ELSE IF ~packageJson.exists
       THEN /\ depScore' = maxDepScore * 10
            /\ results' = [results EXCEPT !.score = @ + maxDepScore * 10]
            /\ UNCHANGED auditStdout
     ELSE \E stdout \in auditAnswers :
            LET vulns == auditVulnerabilities(stdout)
                vulnCount == Len(vulns)
            IN /\ auditStdout' = stdout
               /\ IF auditResolved(stdout)
                    THEN /\ depScore' = depScoreOf(vulnCount)
                         /\ results' = [results EXCEPT
                              !.score = @ + depScoreOf(vulnCount),
                              !.checks = Append(@, Check("Dependency Security Scan", vulnCount = 0,
                                   IF vulnCount = 0 THEN "No known vulnerabilities in dependencies"
                                                    ELSE "Found vulnerable dependencies")),
                              !.securityIssues = @ \o dependencyIssues(vulns)]
                    ELSE /\ depScore' = 0
                         /\ UNCHANGED results
  /\ UNCHANGED << args, error, patternLocals, staticScore, eslintStdout, workspace,
                  written, previous, caller, manager, tracker >>

\* runDependencyScanning up to runNpmAudit when the audit subprocess neither
\* prints nor exits: the promise of runNpmAudit is never settled
AuditNeverExits ==
  /\ pc = "dependency"
  /\ filePaths # << >>
  /\ packageJson.exists
  /\ ~previous.repeats
  /\ auditStdout' = [kind |-> "never-exits", vulnerabilities |-> << >>]
  /\ pc' = "waiting"
  /\ UNCHANGED << args, results, error, patternLocals, staticScore, depScore,
                  eslintStdout, workspace, written, previous, caller, manager, tracker >>

\* ---------------------------------------------------------------- verdict
\* validateChallengeSolution, "Calculate final score and pass/fail", and the
\* return of the result
Finish ==
  /\ pc = "finish"
  /\ results' = [results EXCEPT !.passed = passedOf(results.score),
                                !.grade = calculateGrade(results.score)]
  /\ pc' = "done"
  /\ UNCHANGED << args, error, patternLocals, staticScore, depScore,
                  eslintStdout, auditStdout, workspace, written, previous,
                  caller, manager, tracker >>

\* variant: the result object is kept between calls instead of made afresh
CallAgain_sharedResults ==
  /\ pc = "done"
  /\ caller = "api"
  /\ ~previous.repeats
  /\ previous' = [ repeats |-> TRUE, results |-> results,
                   eslintStdout |-> eslintStdout, auditStdout |-> auditStdout ]
  /\ results' = results
  /\ error' = "none"
  /\ vulnerableCount' = 0
  /\ secureCount' = 0
  /\ patternScore' = 0
  /\ staticScore' = 0
  /\ depScore' = 0
  /\ eslintStdout' = EslintNotRun
  /\ auditStdout' = AuditNotRun
  /\ written' = {}
  /\ pc' = "pattern"
  /\ UNCHANGED << args, workspace, caller, manager, tracker >>

\* validateChallengeSolution is called again with the arguments of the call
\* that just returned, the external tools answering as they did
CallAgain ==
  /\ pc = "done"
  /\ caller = "api"
  /\ ~previous.repeats
  /\ previous' = [ repeats |-> TRUE, results |-> results,
                   eslintStdout |-> eslintStdout, auditStdout |-> auditStdout ]
  /\ results' = freshResults
  /\ error' = "none"
  /\ vulnerableCount' = 0
  /\ secureCount' = 0
  /\ patternScore' = 0
  /\ staticScore' = 0
  /\ depScore' = 0
  /\ eslintStdout' = EslintNotRun
  /\ auditStdout' = AuditNotRun
  /\ written' = {}
  /\ pc' = "pattern"
  /\ UNCHANGED << args, workspace, caller, manager, tracker >>

\* the caller has consumed the returned result; the validator keeps nothing
\* of the call but the workspace files it wrote
Return ==
  /\ pc = "done"
  /\ pc' = "idle"
  /\ challenge' = [defined |-> FALSE, category |-> "undefined"]
  /\ filePaths' = << >>
  /\ content' = << >>
  /\ results' = freshResults
  /\ error' = "none"
  /\ vulnerableCount' = 0
  /\ secureCount' = 0
  /\ patternScore' = 0
  /\ staticScore' = 0
  /\ depScore' = 0
  /\ eslintStdout' = EslintNotRun
  /\ auditStdout' = AuditNotRun
  /\ written' = {}
  /\ previous' = NoPrevious
  /\ caller = "api"
  /\ UNCHANGED << workspace, caller, manager, tracker >>

Next ==
  \/ Call
  \/ RunPatternValidation
  \/ RunStaticAnalysis
  \/ EslintNeverExits
  \/ RunDependencyScanning
  \/ AuditNeverExits
  \/ Finish
  \/ CallAgain
  \/ Return

Spec == Init /\ [][Next]_vars

\* The event loop runs every continuation that is ready: a stage that can
\* run does run.  Nothing obliges a subprocess to exit.
LiveSpec ==
  /\ Init
  /\ [][Next]_vars
  /\ WF_vars(RunPatternValidation)
  /\ WF_vars(RunStaticAnalysis)
  /\ WF_vars(RunDependencyScanning)
  /\ WF_vars(Finish)

\* ======================================================= ChallengeManager
\* Model of cli/src/core/challengeManager.js: the current attempt, its stored
\* copy, the source files of the workspace, and the operations startChallenge,
\* checkSolution, getHint and moveToNext.  checkSolution awaits
\* validateChallengeSolution, whose stages are the actions above.

\* most hint numbers requested
MaxHintNumber == 4

\* The loaded challenge definitions, in the order loadChallenges leaves them.
\*   hasFiles / files      vulnerable_code.files (names), when defined
\*   initial               the text createChallengeFiles writes to each file
\*   javascript            vulnerable_code.language is 'javascript'
\*   hasHints / hints      hints, when defined
\*   hasSecurityChecks / securityChecks   validation.security_checks
LoadedChallenges ==
  << [ id |-> "sql-injection-basic", category |-> "injection",
       hasFiles |-> FALSE, files |-> << >>, initial |-> << "concat" >>,
       javascript |-> FALSE,
       hasHints |-> FALSE, hints |-> << >>,
       hasSecurityChecks |-> FALSE, securityChecks |-> << >> ],
     [ id |-> "stored-xss-comments", category |-> "xss",
       hasFiles |-> TRUE, files |-> << "vulnerable.js", "app.js" >>,
       initial |-> << "unsafe" >>,
       javascript |-> TRUE,
       hasHints |-> TRUE, hints |-> << "xss hint 1", "xss hint 2" >>,
       hasSecurityChecks |-> TRUE,
       securityChecks |->
         << [check |-> "no_document_write", pattern |-> "document.write usage"],
            [check |-> "uses_text_content", pattern |-> "textContent usage"] >> ],
     [ id |-> "custom-mapping-category", category |-> UnconvertibleCategory,
       hasFiles |-> FALSE, files |-> << >>, initial |-> << "concat" >>,
       javascript |-> FALSE,
       hasHints |-> TRUE, hints |-> << >>,
       hasSecurityChecks |-> FALSE, securityChecks |-> << >> ] >>

\* the names of the source files a workspace may hold
FileNames == {"vulnerable.js", "app.js"}

\* a source file that does not exist / that holds a text
Missing == [exists |-> FALSE, text |-> << >>]
Holding(text) == [exists |-> TRUE, text |-> text]

\* the texts the user may save into a file
EditTexts == { << line >> : line \in Snippet }

\* the ids startChallenge may be given: the loaded ones and an unknown one
RequestedIds == { LoadedChallenges[i].id : i \in 1..Len(LoadedChallenges) } \cup {"no-such-challenge"}

\* variant: an id that is not found yields the first challenge
findIndex_firstWhenMissing(list, id) ==
  IF \E i \in 1..Len(list) : list[i].id = id
    THEN CHOOSE i \in 1..Len(list) : list[i].id = id /\ \A j \in 1..(i - 1) : list[j].id # id
    ELSE 1

\* challenges.findIndex(c => c.id === id), 0 standing for -1
findIndex(list, id) ==
  IF \E i \in 1..Len(list) : list[i].id = id
    THEN CHOOSE i \in 1..Len(list) : list[i].id = id /\ \A j \in 1..(i - 1) : list[j].id # id
    ELSE 0

\* createChallengeFiles: the names of the files of a challenge
challengeFileNames(def) == IF def.hasFiles THEN def.files ELSE << "vulnerable.js" >>

\* path.join(workspaceDir, name)
workspacePath(name) == "current/" \o name

\* the substrings the legacy checks look for that a source line contains
SnippetIncludes(line) ==
  CASE line = "unsafe" -> {"secret123"}
    [] line = "safe" -> {"textContent", "process.env"}
    [] line = "placeholder" -> {"?"}
    [] OTHER -> {}

\* content.includes(needle)
includes(text, needle) == \E i \in 1..Len(text) : needle \in SnippetIncludes(text[i])

\* variant: a missing file ends the reading
RECURSIVE readAll_stopAtMissing(_, _)
readAll_stopAtMissing(names, stored) ==
  IF names = << >> \/ ~stored[Head(names)].exists THEN << >>
  ELSE stored[Head(names)].text \o readAll_stopAtMissing(Tail(names), stored)

\* checkSolution, "Read all file contents for validation": the texts of the
\* files that exist, in the order of the file names
RECURSIVE readAll(_, _)
readAll(names, stored) ==
  IF names = << >> THEN << >>
  ELSE (IF stored[Head(names)].exists THEN stored[Head(names)].text ELSE << >>)
       \o readAll(Tail(names), stored)

\* runLegacyChecks: the verdict of the check of a challenge id (the check of
\* 'sql-injection-basic' for an id that has none)
legacyPassed(id, text) ==
  CASE id = "stored-xss-comments" ->
         \/ includes(text, "textContent") \/ includes(text, "innerText")
         \/ includes(text, "escapeHtml") \/ includes(text, "DOMPurify")
    [] id = "jwt-vulnerabilities" ->
         includes(text, "process.env") /\ ~includes(text, "secret123")
    [] OTHER ->
         \/ includes(text, "?") /\ ~includes(text, "' +")
         \/ includes(text, "mysql.escape") \/ includes(text, "connection.escape")

\* runSecurityChecks: a check named no_... must not match, any other must
securityChecksPassed(checks, text) ==
  \A i \in 1..Len(checks) :
    IF checks[i].check \in {"no_document_write"}
      THEN match(text, checks[i].pattern) = 0
      ELSE match(text, checks[i].pattern) > 0

\* the verdict of the fallback of checkSolution
fallbackPassed(def, text) ==
  IF def.hasSecurityChecks THEN securityChecksPassed(def.securityChecks, text)
  ELSE legacyPassed(def.id, text)

\* getHint, fallbackHints[id] || fallbackHints['sql-injection-basic']
fallbackHints(id) ==
  CASE id = "stored-xss-comments" ->
         << "The vulnerability is in how the comment text is added to the page.",
            "Look at how innerHTML is used with the comment text.",
            "Use textContent instead of innerHTML, or escape the HTML." >>
    [] OTHER ->
         << "Look for where user input is being concatenated into the SQL query.",
            "Consider using parameterized queries with ? placeholders.",
            "Example: SELECT * FROM users WHERE username = ? AND password = ?" >>

\* getHint: the hints of a challenge (the hardcoded ones when it defines none)
challengeHints(def) == IF def.hasHints THEN def.hints ELSE fallbackHints(def.id)

\* challengeHints[Math.min(hintNumber - 1, challengeHints.length - 1)]
hintAt(hints, hintNumber) ==
  LET index == IF hintNumber - 1 < Len(hints) - 1 THEN hintNumber - 1 ELSE Len(hints) - 1
  IN IF index >= 0 /\ index < Len(hints) THEN hints[index + 1] ELSE "undefined"

\* what an operation returned or threw
Returned(op, passed, detail) ==
  [ op |-> op, outcome |-> "returned", passed |-> passed, detail |-> detail,
    hint |-> "none", hintNumber |-> 0, totalHints |-> 0 ]
Threw(op, message) ==
  [ op |-> op, outcome |-> "threw", passed |-> FALSE, detail |-> message,
    hint |-> "none", hintNumber |-> 0, totalHints |-> 0 ]

\* the validator's variables between two calls
validatorIdle ==
  /\ pc' = "idle"
  /\ challenge' = [defined |-> FALSE, category |-> "undefined"]
  /\ filePaths' = << >>
  /\ content' = << >>
  /\ results' = freshResults
  /\ error' = "none"
  /\ vulnerableCount' = 0
  /\ secureCount' = 0
  /\ patternScore' = 0
  /\ staticScore' = 0
  /\ depScore' = 0
  /\ eslintStdout' = EslintNotRun
  /\ auditStdout' = AuditNotRun
  /\ written' = {}
  /\ previous' = NoPrevious

validatorVars ==
  << pc, challenge, filePaths, content, results, error, vulnerableCount,
     secureCount, patternScore, staticScore, depScore, eslintStdout,
     auditStdout, written, previous >>

\* an attempt stored by an earlier run for a challenge that is no longer loaded
StaleAttempt ==
  [ id |-> "retired-challenge", status |-> "in_progress",
    filePaths |-> << "current/vulnerable.js" >>, score |-> 0, grade |-> "undefined" ]

\* loadCurrentChallenge: what the state file may hold at construction
StoredAttempts == {NoChallenge, StaleAttempt}

\* A ChallengeManager has been constructed: the challenges are loaded and the
\* stored attempt, if there is one, is the current attempt.
InitCM ==
  /\ pc = "idle"
  /\ challenge = [defined |-> FALSE, category |-> "undefined"]
  /\ filePaths = << >>
  /\ content = << >>
  /\ results = freshResults
  /\ error = "none"
  /\ vulnerableCount = 0
  /\ secureCount = 0
  /\ patternScore = 0
  /\ staticScore = 0
  /\ depScore = 0
  /\ eslintStdout = EslintNotRun
  /\ auditStdout = AuditNotRun
  /\ eslintrc = "absent"
  /\ packageJson = [exists |-> FALSE, valid |-> FALSE, devDependencies |-> {}]
  /\ written = {}
  /\ previous = NoPrevious
  /\ caller = "api"
  /\ challenges = LoadedChallenges
  /\ currentChallenge \in StoredAttempts
  /\ persisted = currentChallenge
  /\ sourceFiles = [f \in FileNames |-> Missing]
  /\ lastResult = NoResult
  /\ trackerFresh

\* createPackageJson: written for a JavaScript challenge when there is none
createPackageJson(def, pkg) ==
  IF def.javascript /\ ~pkg.exists
    THEN [exists |-> TRUE, valid |-> TRUE, devDependencies |-> {}]
    ELSE pkg

\* startChallenge once the definition is found: the files are written, the
\* attempt becomes current and is stored
startFound(def) ==
  LET names == challengeFileNames(def)
      attempt == [ id |-> def.id, status |-> "in_progress",
                   filePaths |-> [i \in 1..Len(names) |-> workspacePath(names[i])],
                   score |-> 0, grade |-> "undefined" ]
  IN /\ sourceFiles' = [f \in FileNames |->
                          IF \E i \in 1..Len(names) : names[i] = f
                            THEN Holding(def.initial) ELSE sourceFiles[f]]
     /\ packageJson' = createPackageJson(def, packageJson)
     /\ currentChallenge' = attempt
     /\ persisted' = attempt
     /\ UNCHANGED << challenges, eslintrc, caller, validatorVars >>

\* startChallenge(challengeId)
StartChallenge ==
  /\ UNCHANGED tracker
  /\ pc = "idle"
  /\ \E id \in RequestedIds :
       IF findIndex(challenges, id) = 0
         THEN /\ lastResult' = Threw("startChallenge", "Challenge " \o id \o " not found")
              /\ UNCHANGED << challenges, currentChallenge, persisted, sourceFiles,
                              workspace, caller, validatorVars >>
         ELSE /\ startFound(challenges[findIndex(challenges, id)])
              /\ lastResult' = Returned("startChallenge", FALSE, id)

\* the user saves a text into a file of the current attempt
EditFile ==
  /\ UNCHANGED tracker
  /\ pc = "idle"
  /\ currentChallenge # NoChallenge
  /\ \E f \in FileNames, text \in EditTexts :
       /\ workspacePath(f) \in { currentChallenge.filePaths[i] :
                                   i \in 1..Len(currentChallenge.filePaths) }
       /\ sourceFiles' = [sourceFiles EXCEPT ![f] = Holding(text)]
  /\ UNCHANGED << challenges, currentChallenge, persisted, lastResult, workspace,
                  caller, validatorVars >>

\* the user removes a file of the current attempt
DeleteFile ==
  /\ UNCHANGED tracker
  /\ pc = "idle"
  /\ currentChallenge # NoChallenge
  /\ \E f \in FileNames :
       /\ workspacePath(f) \in { currentChallenge.filePaths[i] :
                                   i \in 1..Len(currentChallenge.filePaths) }
       /\ sourceFiles[f].exists
       /\ sourceFiles' = [sourceFiles EXCEPT ![f] = Missing]
  /\ UNCHANGED << challenges, currentChallenge, persisted, lastResult, workspace,
                  caller, validatorVars >>

\* the file names of the paths of an attempt, in order
RECURSIVE namesOf(_)
namesOf(paths) ==
  IF paths = << >> THEN << >>
  ELSE << CHOOSE f \in FileNames : workspacePath(f) = Head(paths) >> \o namesOf(Tail(paths))

\* generateSecurityReport throws on an issue without severity
\* (issue.severity.toUpperCase())
reportThrows(res) ==
  \E i \in 1..Len(res.securityIssues) : res.securityIssues[i].severity = "undefined"

\* variant: an attempt is completed from grade D up
completesAttempt_fromGradeD(res) == res.score >= 600

\* checkSolution, if (validationResults.passed)
completesAttempt(res) == res.passed

\* variant: a failed check reopens the attempt
afterFailedCheck_reopens(cur) == [cur EXCEPT !.status = "in_progress"]

\* checkSolution, the else branch: the attempt is left as it is
afterFailedCheck(cur) == cur

\* variant: the guard lets an absent attempt through
hasActiveChallenge_lenient(cur) == cur.status \in {"none", "in_progress", "completed"}

\* if (!this.currentChallenge) throw new Error('No active challenge')
hasActiveChallenge(cur) == cur # NoChallenge

\* checkSolution up to the call of validateChallengeSolution
CheckSolution ==
  /\ UNCHANGED tracker
  /\ pc = "idle"
  /\ IF ~hasActiveChallenge(currentChallenge)
       THEN /\ lastResult' = Threw("checkSolution", "No active challenge")
            /\ UNCHANGED << caller, validatorVars >>
     ELSE IF findIndex(challenges, currentChallenge.id) = 0
       THEN /\ lastResult' = Threw("checkSolution", "Challenge definition not found")
            /\ UNCHANGED << caller, validatorVars >>
     ELSE LET def == challenges[findIndex(challenges, currentChallenge.id)]
          IN /\ challenge' = [defined |-> TRUE, category |-> def.category]
             /\ filePaths' = currentChallenge.filePaths
             /\ content' = readAll(namesOf(currentChallenge.filePaths), sourceFiles)
             /\ caller' = "checkSolution"
             /\ pc' = "pattern"
             /\ lastResult' = NoResult
             /\ UNCHANGED << results, error, vulnerableCount, secureCount,
                             patternScore, staticScore, depScore, eslintStdout,
                             auditStdout, written, previous >>
  /\ UNCHANGED << challenges, currentChallenge, persisted, sourceFiles, workspace >>

\* checkSolution from the return of validateChallengeSolution on
CheckSolutionReturn ==
  /\ UNCHANGED tracker
  /\ pc = "done"
  /\ caller = "checkSolution"
  /\ LET def == challenges[findIndex(challenges, currentChallenge.id)]
         completed == [currentChallenge EXCEPT !.status = "completed"]
     IN IF reportThrows(results)
          THEN \* catch: runSecurityChecks or runLegacyChecks
               LET passed == fallbackPassed(def, content)
               IN /\ currentChallenge' = IF passed THEN completed ELSE currentChallenge
                  /\ persisted' = IF passed THEN completed ELSE persisted
                  /\ lastResult' = Returned("checkSolution", passed, "fallback")
        ELSE IF completesAttempt(results)
          THEN /\ currentChallenge' = [completed EXCEPT !.score = results.score,
                                                        !.grade = results.grade]
               /\ persisted' = currentChallenge'
               /\ lastResult' = Returned("checkSolution", TRUE, "validation")
        ELSE /\ currentChallenge' = afterFailedCheck(currentChallenge)
             /\ UNCHANGED persisted
             /\ lastResult' = Returned("checkSolution", FALSE, "validation")
  /\ validatorIdle
  /\ caller' = "api"
  /\ UNCHANGED << challenges, sourceFiles, workspace >>

\* getHint(hintNumber)
GetHint ==
  /\ UNCHANGED tracker
  /\ pc = "idle"
  /\ \E hintNumber \in 1..MaxHintNumber :
       IF ~hasActiveChallenge(currentChallenge)
         THEN lastResult' = Threw("getHint", "No active challenge")
       ELSE LET i == findIndex(challenges, currentChallenge.id)
                hints == IF i = 0 THEN fallbackHints(currentChallenge.id)
                         ELSE challengeHints(challenges[i])
            IN lastResult' = [ op |-> "getHint", outcome |-> "returned",
                               passed |-> FALSE, detail |-> "none",
                               hint |-> hintAt(hints, hintNumber),
                               hintNumber |-> hintNumber,
                               totalHints |-> Len(hints) ]
  /\ UNCHANGED << challenges, currentChallenge, persisted, sourceFiles, workspace,
                  caller, validatorVars >>

\* variant: the challenge before the last has no next one either
noNextChallenge_offByOne(currentIndex, length) ==
  currentIndex = 0 \/ currentIndex >= length - 1

\* moveToNext, currentIndex === -1 || currentIndex === challenges.length - 1
noNextChallenge(currentIndex, length) ==
  currentIndex = 0 \/ currentIndex = length

\* moveToNext()
MoveToNext ==
  /\ UNCHANGED tracker
  /\ pc = "idle"
  /\ LET currentIndex == findIndex(challenges, currentChallenge.id)
     IN IF noNextChallenge(currentIndex, Len(challenges))
          THEN /\ lastResult' = Returned("moveToNext", FALSE, "null")
               /\ UNCHANGED << challenges, currentChallenge, persisted, sourceFiles,
                               workspace, caller, validatorVars >>
          ELSE /\ startFound(challenges[currentIndex + 1])
               /\ lastResult' = Returned("moveToNext", FALSE, challenges[currentIndex + 1].id)

NextCM ==
  \/ StartChallenge
  \/ EditFile
  \/ DeleteFile
  \/ CheckSolution
  \/ RunPatternValidation
  \/ RunStaticAnalysis
  \/ EslintNeverExits
  \/ RunDependencyScanning
  \/ AuditNeverExits
  \/ Finish
  \/ CheckSolutionReturn
  \/ GetHint
  \/ MoveToNext

SpecCM == InitCM /\ [][NextCM]_vars

\* ================================================================ claims
\* helpers of the claims
statesAfterPattern == {"static", "dependency", "finish", "done"}

checkNames(res) == { res.checks[i].name : i \in 1..Len(res.checks) }

checksNamed(res, name) == { i \in 1..Len(res.checks) : res.checks[i].name = name }

\* the pattern lists the text is matched against: those of the resolved rule
\* set, none when no rule set resolves
patternsFor(category, side) ==
  IF hasRules(category)
    THEN (IF side = "vulnerable"
            THEN validationRules[rulesKey(category)].vulnerablePatterns
            ELSE validationRules[rulesKey(category)].securePatterns)
    ELSE << >>

\* the number of patterns of a list that match the text at least once
distinctMatching(text, patterns) ==
  Cardinality({ i \in 1..Len(patterns) : match(text, patterns[i]) > 0 })

\* ---- C1 -----------------------------------------------------------------
\* C1 (as claimed): once runPatternValidation has run, a text with no
\* vulnerable-pattern match got a pattern sub-score of exactly 60 when a
\* secure pattern matches and exactly 42 when none does, for every category
\* and every text.
C1_ZeroVulnerableScore ==
  ( /\ pc \in statesAfterPattern
    /\ error = "none"
    /\ countMatches(content, patternsFor(challenge.category, "vulnerable")) = 0 )
  => patternScore =
       (IF countMatches(content, patternsFor(challenge.category, "secure")) > 0
          THEN 600 ELSE 420)

\* ---- C2 -----------------------------------------------------------------
\* C2 (as claimed): with exactly k >= 1 distinct vulnerable patterns of the
\* resolved rule set matching and no secure pattern matching, the pattern
\* sub-score is max(0, 60 - 20*k), however often each pattern occurs.
C2_PerDistinctPattern ==
  ( /\ pc \in statesAfterPattern
    /\ error = "none"
    /\ hasRules(challenge.category)
    /\ distinctMatching(content, patternsFor(challenge.category, "vulnerable")) >= 1
    /\ countMatches(content, patternsFor(challenge.category, "secure")) = 0 )
  => patternScore =
       Max(0, 60 - 20 * distinctMatching(content, patternsFor(challenge.category, "vulnerable"))) * 10

\* C2 (amended): with the vulnerable patterns of the resolved rule set
\* matching n >= 1 times in total, every occurrence of every pattern counted,
\* and no secure pattern matching, the pattern sub-score is max(0, 60 - 20*n).
C2_PerOccurrence ==
  ( /\ pc \in statesAfterPattern
    /\ error = "none"
    /\ hasRules(challenge.category)
    /\ countMatches(content, patternsFor(challenge.category, "vulnerable")) >= 1
    /\ countMatches(content, patternsFor(challenge.category, "secure")) = 0 )
  => patternScore =
       Max(0, 60 - 20 * countMatches(content, patternsFor(challenge.category, "vulnerable"))) * 10

\* one pattern matching twice: two occurrences cost 40 points, not 20
C2_Witness ==
  /\ pc = "done"
  /\ error = "none"
  /\ hasRules(challenge.category)
  /\ distinctMatching(content, patternsFor(challenge.category, "vulnerable")) = 1
  /\ countMatches(content, patternsFor(challenge.category, "vulnerable")) = 2
  /\ countMatches(content, patternsFor(challenge.category, "secure")) = 0
  /\ patternScore = 200

\* ---- C3 -----------------------------------------------------------------
\* C3: every returned result has passed = TRUE exactly when its score is at
\* least 80 points, also when a stage raised an error.
C3_PassedIffThreshold ==
  pc = "done" => (results.passed <=> results.score >= 800)

\* a result of exactly 80 points, which passes
C3_Witness ==
  /\ pc = "done"
  /\ results.score = 800
  /\ results.passed

\* ---- C4 -----------------------------------------------------------------
\* C4 (as claimed): every returned result carries the grade that the step
\* function of the grade table gives for its score.
C4_GradeOfScore ==
  pc = "done" => results.grade = calculateGrade(results.score)

\* ---- C5 -----------------------------------------------------------------
\* C5: in every returned result the score is the sum of the three sub-scores,
\* with 0 <= pattern <= 60, 0 <= static analysis <= 25, 0 <= dependency <= 15,
\* so 0 <= score <= 100.
C5_ScoreIsCappedSum ==
  pc = "done" =>
    /\ results.score = patternScore + staticScore + depScore
    /\ 0 <= patternScore /\ patternScore <= 600
    /\ 0 <= staticScore /\ staticScore <= 250
    /\ 0 <= depScore /\ depScore <= 150
    /\ 0 <= results.score /\ results.score <= 1000

\* more security diagnostics than 25 points pay for: the sub-score is 0
C5_Witness ==
  /\ pc = "done"
  /\ eslintStdout.kind = "json"
  /\ Len(securityDiags(runESLint(eslintStdout))) >= 6
  /\ staticScore = 0
  /\ results.score = patternScore + depScore

\* ---- C6 -----------------------------------------------------------------
\* C6 (as claimed): the score of every returned result is an integer.
C6_ScoreIsInteger ==
  pc = "done" => results.score % 10 = 0

\* C6 (amended): the score of every returned result is an integer, except
\* that it is an integer plus one half exactly when the static-analysis stage
\* took its failure path (partial credit 25 x 0.5 = 12.5).
C6_ScoreIsIntegerOrHalf ==
  pc = "done" =>
    IF checksNamed(results, "Static Analysis") # {}
      THEN results.score % 10 = 5
      ELSE results.score % 10 = 0

\* a result with the static-analysis failure path taken and a fractional score
C6_Witness ==
  /\ pc = "done"
  /\ error = "none"
  /\ checksNamed(results, "Static Analysis") # {}
  /\ staticScore = 125
  /\ results.score % 10 = 5

\* ---- C7 -----------------------------------------------------------------
\* C7 (as claimed): when the linter prints nothing or prints non-JSON, the
\* static-analysis stage contributes exactly 12.5 points and the result holds
\* the static-analysis check marked partial/unavailable.
C7_LinterFailurePartialCredit ==
  ( /\ pc = "done"
    /\ eslintStdout.kind \in {"empty", "nonjson"} )
  => /\ staticScore = 125
     /\ checksNamed(results, "Static Analysis") # {}

\* ---- C8 -----------------------------------------------------------------
\* C8 (as claimed): when the workspace has a package.json and the audit tool
\* prints nothing or prints non-JSON, the dependency stage contributes exactly
\* 12 points and the result holds a dependency check with an explanation.
C8_AuditFailurePartialCredit ==
  ( /\ pc = "done"
    /\ packageJson.exists
    /\ auditStdout.kind \in {"empty", "nonjson"} )
  => /\ depScore = 120
     /\ checksNamed(results, "Dependency Scan") # {}

\* ---- C9 -----------------------------------------------------------------
\* the rule set the claim assigns to a category
C9_Expected(category) ==
  CASE category \in {"sql-injection", "xss", "auth", "path-traversal"} -> category
    [] category = "injection" -> "sql-injection"
    [] category \in {"broken-auth", "broken-access", "security-misconfig"} -> "auth"
    [] category = "xxe" -> "path-traversal"
    [] OTHER -> "sql-injection"

\* C9 (as claimed): for every category the lookup resolves to the rule set of
\* the alias table, with the SQL-injection set as the default, and the failing
\* check named 'Pattern Validation' is never emitted.
C9_LookupAlwaysResolves ==
  ( /\ pc \in statesAfterPattern
    /\ error = "none" )
  => /\ rulesKey(challenge.category) = C9_Expected(challenge.category)
     /\ "Pattern Validation" \notin checkNames(results)

\* ---- C10 ----------------------------------------------------------------
\* C10: when a stage throws, validateChallengeSolution returns a result with
\* passed = FALSE, exactly one check named 'Validation Error', and the score
\* accumulated by the stages that completed before the error.
C10_ErrorIsContained ==
  ( /\ pc = "done"
    /\ error # "none" )
  => /\ results.passed = FALSE
     /\ Cardinality(checksNamed(results, "Validation Error")) = 1
     /\ results.checks[Len(results.checks)].name = "Validation Error"
     /\ results.score = patternScore + staticScore + depScore

\* a call whose first stage threw has returned
C10_Witness ==
  /\ pc = "done"
  /\ error = "TypeError"
  /\ ~challenge.defined
  /\ "Validation Error" \in checkNames(results)

\* ---- C17 ----------------------------------------------------------------
\* C17: a call that repeats the preceding call (same challenge, file paths and
\* content, the tools answering as before) returns a result equal to the
\* preceding one in passed, score, grade, checks and securityIssues.
C17_RepeatedCallSameResult ==
  ( /\ pc = "done"
    /\ previous.repeats )
  => /\ results.passed = previous.results.passed
     /\ results.score = previous.results.score
     /\ results.grade = previous.results.grade
     /\ results.checks = previous.results.checks
     /\ results.securityIssues = previous.results.securityIssues

\* a repeated call has returned after a first call that wrote the linter
\* configuration and reported issues
C17_Witness ==
  /\ pc = "done"
  /\ previous.repeats
  /\ eslintrc = "security-default"
  /\ "eslint" \in packageJson.devDependencies
  /\ eslintStdout.kind = "json"
  /\ Len(results.securityIssues) >= 2
  /\ results.score > 0

\* ---- C18 ----------------------------------------------------------------
\* C18: setupESLintSecurity never overwrites a configuration file that
\* exists, writes package.json only to add a missing development dependency
\* and keeps the ones it has, and writes nothing in a call that repeats a call
\* in which it already ran.
C18_SetupStep ==
  /\ (eslintrc # "absent" => eslintrc' = eslintrc)
  /\ (packageJson' # packageJson =>
        /\ packageJson.exists /\ packageJson.valid
        /\ ~({"eslint", "eslint-plugin-security"} \subseteq packageJson.devDependencies)
        /\ packageJson'.devDependencies =
             packageJson.devDependencies \cup {"eslint", "eslint-plugin-security"})
  /\ (".eslintrc.json" \in written' => eslintrc = "absent" \/ written' = written)
  /\ (previous'.repeats => written' = {} /\ eslintrc' = eslintrc /\ packageJson' = packageJson)

C18_SetupIdempotent == [][C18_SetupStep]_vars

\* a repeated call ran the setup again on a workspace the first call had set
\* up, and wrote nothing
C18_Witness ==
  /\ pc = "dependency"
  /\ previous.repeats
  /\ filePaths # << >>
  /\ eslintrc = "security-default"
  /\ packageJson.exists /\ packageJson.valid
  /\ written = {}

\* ---- C19 ----------------------------------------------------------------
\* C19 (as claimed): every call of validateChallengeSolution eventually
\* returns, also when a subprocess never prints and never exits.
C19_EveryCallReturns == (pc = "pattern") ~> (pc = "done")

\* ---- C20 ----------------------------------------------------------------
\* the names of the checks each stage can push
C20_StageChecks ==
  << { validationRules[k].name : k \in DOMAIN validationRules } \cup {"Pattern Validation"},
     { "Static Analysis (ESLint Security)", "Static Analysis" },
     { "Dependency Security Scan", "Dependency Scan" } >>

\* C20 (as claimed): a result returned without a stage error holds exactly
\* one check of each of the three stages.
C20_OneCheckPerStage ==
  ( /\ pc = "done"
    /\ error = "none" )
  => /\ Len(results.checks) = 3
     /\ \A st \in 1..3 :
          Cardinality({ i \in 1..Len(results.checks) :
                          results.checks[i].name \in C20_StageChecks[st] }) = 1

\* the definition of the current attempt
currentDefinition == challenges[findIndex(challenges, currentChallenge.id)]

\* C11: a checkSolution call whose validation ran into an exception returns
\* the verdict of the fallback check (the security_checks of the challenge if
\* it defines any, else the legacy text check of its id) on the text read.
C11_FallsBackOnError ==
  [][ (pc = "done" /\ caller = "checkSolution" /\ error # "none" /\ pc' = "idle")
        => /\ lastResult'.detail = "fallback"
           /\ lastResult'.passed = fallbackPassed(currentDefinition, content) ]_vars

\* the ids of the loaded challenges
LoadedIds == { challenges[i].id : i \in 1..Len(challenges) }

\* a checkSolution call is about to return
checkReturns == pc = "done" /\ caller = "checkSolution" /\ pc' = "idle"

\* C12: the status of the current attempt goes from in_progress to completed
\* only in a checkSolution call whose validation result has passed = true; a
\* checkSolution call that returns passed = false leaves the attempt and its
\* stored copy as they were, and checkSolution can be called again.
C12_Step ==
  /\ (currentChallenge.status = "in_progress" /\ currentChallenge'.status = "completed")
       => /\ checkReturns
          /\ results.passed
          /\ lastResult' = Returned("checkSolution", TRUE, "validation")
          /\ currentChallenge'.id = currentChallenge.id
  /\ (checkReturns /\ ~lastResult'.passed)
       => /\ currentChallenge' = currentChallenge
          /\ persisted' = persisted
          /\ currentChallenge' # NoChallenge
C12_CompletedOnlyByPassedCheck == [][C12_Step]_vars

\* a check has just completed the attempt and stored it
C12_Witness ==
  /\ lastResult = Returned("checkSolution", TRUE, "validation")
  /\ currentChallenge.status = "completed"
  /\ currentChallenge.score >= 800
  /\ persisted = currentChallenge

\* C13: a completed attempt stays completed; its status changes only when
\* startChallenge (called directly or by a successful moveToNext) replaces
\* the attempt by a new one in progress.
C13_Step ==
  currentChallenge.status = "completed" =>
    \/ /\ currentChallenge'.status = "completed"
       /\ currentChallenge'.id = currentChallenge.id
    \/ /\ currentChallenge'.status = "in_progress"
       /\ lastResult'.op \in {"startChallenge", "moveToNext"}
       /\ lastResult'.outcome = "returned"
       /\ lastResult'.detail = currentChallenge'.id
       /\ persisted' = currentChallenge'
C13_CompletedIsTerminal == [][C13_Step]_vars

\* a check has failed on a completed attempt
C13_Witness ==
  /\ currentChallenge.status = "completed"
  /\ lastResult = Returned("checkSolution", FALSE, "validation")

\* C14: without a current challenge, checkSolution and getHint throw
\* 'No active challenge', no validation is started and neither the attempt, its
\* stored copy nor the workspace changes.
C14_Step ==
  (currentChallenge = NoChallenge /\ (CheckSolution \/ GetHint)) =>
    /\ lastResult'.op \in {"checkSolution", "getHint"}
    /\ lastResult'.outcome = "threw"
    /\ lastResult'.detail = "No active challenge"
    /\ pc' = "idle"
    /\ UNCHANGED << currentChallenge, persisted, sourceFiles, workspace, validatorVars >>
C14_NoActiveChallenge == [][C14_Step]_vars

\* checkSolution has thrown for want of a current challenge
C14_Witness ==
  /\ currentChallenge = NoChallenge
  /\ lastResult = Threw("checkSolution", "No active challenge")

\* C15: startChallenge with an id of no loaded challenge throws 'Challenge
\* <id> not found' and changes neither the attempt, its stored copy nor the
\* workspace files; with a known id the challenge becomes the current attempt,
\* in progress, and is stored.
C15_Step ==
  StartChallenge =>
    /\ lastResult'.op = "startChallenge"
    /\ \A id \in RequestedIds :
         /\ lastResult' = Threw("startChallenge", "Challenge " \o id \o " not found")
              => /\ id \notin LoadedIds
                 /\ UNCHANGED << currentChallenge, persisted, sourceFiles, workspace >>
         /\ lastResult' = Returned("startChallenge", FALSE, id)
              => /\ id \in LoadedIds
                 /\ currentChallenge'.id = id
                 /\ currentChallenge'.status = "in_progress"
                 /\ persisted' = currentChallenge'
    /\ lastResult'.outcome \in {"threw", "returned"}
C15_StartChallenge == [][C15_Step]_vars

\* an unknown id has been refused while an attempt was in progress
C15_Witness ==
  /\ lastResult = Threw("startChallenge", "Challenge no-such-challenge not found")
  /\ currentChallenge.status = "in_progress"
  /\ persisted = currentChallenge

\* the text of the file at a path, empty when the file does not exist
existingText(path) ==
  LET f == CHOOSE f \in FileNames : workspacePath(f) = path
  IN IF sourceFiles[f].exists THEN sourceFiles[f].text ELSE << >>

\* C16: checkSolution on an attempt at a loaded challenge validates the
\* concatenation of the texts of the files that exist, a missing file counting
\* as empty, and returns a verdict instead of throwing, even when every file
\* is missing.
C16_Step ==
  /\ (currentChallenge.id \in LoadedIds /\ CheckSolution) =>
       /\ pc' = "pattern"
       /\ content' = IF Len(currentChallenge.filePaths) = 1
                       THEN existingText(currentChallenge.filePaths[1])
                       ELSE existingText(currentChallenge.filePaths[1])
                            \o existingText(currentChallenge.filePaths[2])
  /\ checkReturns =>
       /\ lastResult'.op = "checkSolution"
       /\ lastResult'.outcome = "returned"
C16_MissingFilesAreEmpty == [][C16_Step]_vars

\* validation has run for an attempt whose first file is missing while its
\* second file exists
C16_Witness ==
  /\ pc = "done"
  /\ caller = "checkSolution"
  /\ Len(currentChallenge.filePaths) = 2
  /\ ~sourceFiles["vulnerable.js"].exists
  /\ sourceFiles["app.js"].exists
  /\ content = sourceFiles["app.js"].text

\* validation has run for an attempt all of whose files are missing
C16_AllMissing ==
  /\ pc = "done"
  /\ caller = "checkSolution"
  /\ \A f \in FileNames : ~sourceFiles[f].exists
  /\ content = << >>

\* the hints getHint chooses from for the current attempt
currentHints ==
  IF currentChallenge.id \in LoadedIds THEN challengeHints(currentDefinition)
  ELSE fallbackHints(currentChallenge.id)

\* C21: getHint(n) on a current challenge with N hints returns a defined hint,
\* the n-th when n <= N and the last when n > N, with totalHints = N and
\* hintNumber = n.
C21_HintIsDefined ==
  (lastResult.op = "getHint" /\ lastResult.outcome = "returned") =>
    LET N == Len(currentHints)
        n == lastResult.hintNumber
    IN /\ lastResult.totalHints = N
       /\ n \in 1..MaxHintNumber
       /\ lastResult.hint # "undefined"
       /\ n <= N => lastResult.hint = currentHints[n]
       /\ (n > N /\ N > 0) => lastResult.hint = currentHints[N]

\* C21, for a challenge that has at least one hint
C21_HintOfNonEmptyList ==
  (lastResult.op = "getHint" /\ lastResult.outcome = "returned" /\ Len(currentHints) > 0) =>
    LET N == Len(currentHints)
        n == lastResult.hintNumber
    IN /\ lastResult.totalHints = N
       /\ lastResult.hint # "undefined"
       /\ lastResult.hint = currentHints[IF n <= N THEN n ELSE N]

\* C22: moveToNext starts the challenge that follows the current one in the
\* loaded list and makes it the current attempt, in progress; without a
\* current challenge, with a current id that is not in the list, or on the last
\* challenge it returns null and changes neither the attempt nor the workspace.
C22_Step ==
  MoveToNext =>
    IF \/ currentChallenge = NoChallenge
       \/ currentChallenge.id \notin LoadedIds
       \/ currentChallenge.id = challenges[Len(challenges)].id
      THEN /\ lastResult' = Returned("moveToNext", FALSE, "null")
           /\ UNCHANGED << currentChallenge, persisted, sourceFiles, workspace >>
      ELSE \E i \in 1..(Len(challenges) - 1) :
             /\ challenges[i].id = currentChallenge.id
             /\ currentChallenge'.id = challenges[i + 1].id
             /\ currentChallenge'.status = "in_progress"
             /\ persisted' = currentChallenge'
             /\ lastResult' = Returned("moveToNext", FALSE, challenges[i + 1].id)
C22_MoveToNext == [][C22_Step]_vars

\* moveToNext has gone from the first challenge to the second
C22_Witness ==
  /\ lastResult = Returned("moveToNext", FALSE, "stored-xss-comments")
  /\ currentChallenge.id = "stored-xss-comments"
  /\ currentChallenge.status = "in_progress"

\* moveToNext has returned null for an attempt whose id is not in the list
C22_StaleAttempt ==
  /\ lastResult = Returned("moveToNext", FALSE, "null")
  /\ currentChallenge = StaleAttempt

\* ======================================================== ProgressTracker
\* Model of ProgressTracker (core/progressTracker.js): the progress object,
\* the progress file and the clock, with one action per method.

\* most starts and most hints recorded for one challenge
MaxCount == 1

\* the last day of the clock
MaxDay == 4

\* the longest streak a progress file holds at construction
MaxStreak == 2

\* x++ on a counter field
increment(x) ==
  IF x = Undefined \/ x = NaN THEN NaN
  ELSE IF x = Null THEN 1
  ELSE x + 1

\* JSON.stringify of a counter field followed by JSON.parse: NaN is written as
\* null, a field that was never assigned is left out
throughJson(x) == IF x = NaN THEN Null ELSE x

\* saveProgress: what the progress file holds after writeJsonSync(progress)
savedFile(p) ==
  [ exists |-> TRUE,
    progress |-> [p EXCEPT !.challenges =
                    [id \in TrackedIds |->
                       [p.challenges[id] EXCEPT !.attempts = throughJson(@),
                                                !.hints = throughJson(@)]]] ]

\* loadProgress: the content of the file if it exists, else the default
loadProgress(file) == IF file.exists THEN file.progress ELSE getDefaultProgress

\* the progress files the tracker may find at construction: no challenge
\* entries, any streak counters and any last activity up to the first day
ProgressFiles ==
  { [ challenges |-> [id \in TrackedIds |-> NoEntry],
      stats |-> [ totalCompleted |-> 0, totalStarted |-> 0, currentStreak |-> c,
                  longestStreak |-> l, lastActivity |-> a ] ] :
      c \in 0..MaxStreak, l \in 0..MaxStreak, a \in {NoActivity} \cup 1..FirstDay }

\* updateStreak on the statistics, day being today
updateStreak(stats, day) ==
  IF stats.lastActivity # NoActivity /\ stats.lastActivity = day
    THEN stats
  ELSE LET streak == IF stats.lastActivity # NoActivity /\ stats.lastActivity = day - 1
                       THEN stats.currentStreak + 1 ELSE 1
       IN [stats EXCEPT !.currentStreak = streak,
                        !.longestStreak = IF streak > @ THEN streak ELSE @]

\* markChallengeStarted(challengeId) on the progress object, before the save
markChallengeStarted(p, id, day) ==
  LET created == ~p.challenges[id].exists
      entry == IF created
                 THEN [exists |-> TRUE, completed |-> FALSE, attempts |-> 0, hints |-> 0]
                 ELSE p.challenges[id]
  IN [p EXCEPT !.challenges[id] = [entry EXCEPT !.attempts = increment(@)],
               !.stats.totalStarted = IF created THEN @ + 1 ELSE @,
               !.stats.lastActivity = day]

\* markChallengeCompleted(challengeId) on the progress object, before the save
markChallengeCompleted(p, id, day) ==
  LET entry == IF p.challenges[id].exists THEN p.challenges[id]
               ELSE [exists |-> TRUE, completed |-> FALSE,
                     attempts |-> Undefined, hints |-> Undefined]
      marked == [entry EXCEPT !.completed = TRUE]
      counted == IF ~marked.completed THEN p.stats.totalCompleted + 1
                 ELSE p.stats.totalCompleted
      stats == [p.stats EXCEPT !.totalCompleted = counted]
  IN [p EXCEPT !.challenges[id] = marked,
               !.stats = [updateStreak(stats, day) EXCEPT !.lastActivity = day]]

\* recordHintUsed(challengeId) on the progress object, before the save
recordHintUsed(p, id, day) ==
  LET started == IF p.challenges[id].exists THEN p ELSE markChallengeStarted(p, id, day)
  IN [started EXCEPT !.challenges[id].hints = increment(@)]

\* is a counter below the bound (a counter that is not a number never grows)
belowBound(x) == x < MaxCount

\* A ProgressTracker has been constructed: on no progress file, or on a file
\* of an earlier run.
InitPT ==
  /\ pc = "idle"
  /\ challenge = [defined |-> FALSE, category |-> "undefined"]
  /\ filePaths = << >>
  /\ content = << >>
  /\ results = freshResults
  /\ error = "none"
  /\ vulnerableCount = 0
  /\ secureCount = 0
  /\ patternScore = 0
  /\ staticScore = 0
  /\ depScore = 0
  /\ eslintStdout = EslintNotRun
  /\ auditStdout = AuditNotRun
  /\ eslintrc = "absent"
  /\ packageJson = [exists |-> FALSE, valid |-> FALSE, devDependencies |-> {}]
  /\ written = {}
  /\ previous = NoPrevious
  /\ caller = "api"
  /\ challenges = LoadedChallenges
  /\ currentChallenge = NoChallenge
  /\ persisted = NoChallenge
  /\ sourceFiles = [f \in FileNames |-> Missing]
  /\ lastResult = NoResult
  /\ today = FirstDay
  /\ \/ /\ origin = "fresh"
        /\ progressFile = NoProgressFile
        /\ progress = getDefaultProgress
     \/ /\ origin = "file"
        /\ \E f \in ProgressFiles :
             /\ progressFile = [exists |-> TRUE, progress |-> f]
             /\ progress = loadProgress(progressFile)

\* what no ProgressTracker method touches
notTracker == << validatorVars, workspace, caller, manager >>

\* markChallengeStarted(challengeId)
MarkChallengeStarted ==
  \E id \in TrackedIds :
    /\ belowBound(progress.challenges[id].attempts)
    /\ progress' = markChallengeStarted(progress, id, today)
    /\ progressFile' = savedFile(progress')
    /\ UNCHANGED << origin, today, notTracker >>

\* markChallengeCompleted(challengeId)
MarkChallengeCompleted ==
  \E id \in TrackedIds :
    /\ progress' = markChallengeCompleted(progress, id, today)
    /\ progressFile' = savedFile(progress')
    /\ UNCHANGED << origin, today, notTracker >>

\* recordHintUsed(challengeId)
RecordHintUsed ==
  \E id \in TrackedIds :
    /\ belowBound(progress.challenges[id].hints)
    /\ progress' = recordHintUsed(progress, id, today)
    /\ progressFile' = savedFile(progress')
    /\ UNCHANGED << origin, today, notTracker >>

\* updateStreak(), called on its own: nothing is saved (the streak is kept
\* within the bound)
UpdateStreak ==
  /\ progress.stats.currentStreak <= MaxStreak
  /\ progress' = [progress EXCEPT !.stats = updateStreak(@, today)]
  /\ UNCHANGED << progressFile, origin, today, notTracker >>

\* a new ProgressTracker is constructed on the same data path
Reload ==
  /\ progress' = loadProgress(progressFile)
  /\ UNCHANGED << progressFile, origin, today, notTracker >>

\* reset()
Reset ==
  /\ progress' = getDefaultProgress
  /\ progressFile' = savedFile(progress')
  /\ origin' = "fresh"
  /\ UNCHANGED << today, notTracker >>

\* midnight passes
NextDay ==
  /\ today < MaxDay
  /\ today' = today + 1
  /\ UNCHANGED << progress, progressFile, origin, notTracker >>

NextPT ==
  \/ MarkChallengeStarted
  \/ MarkChallengeCompleted
  \/ RecordHintUsed
  \/ UpdateStreak
  \/ Reload
  \/ Reset
  \/ NextDay

SpecPT == InitPT /\ [][NextPT]_vars

\* the challenges whose completed flag is true
completedIds == { id \in TrackedIds : progress.challenges[id].exists /\ progress.challenges[id].completed }

\* C23: in a tracker that began without a progress file, stats.totalCompleted
\* is the number of challenges whose completed flag is true, also after the
\* tracker is reloaded from its file.
C23_TotalCompletedCounts ==
  origin = "fresh" => progress.stats.totalCompleted = Cardinality(completedIds)

\* C24: after updateStreak returns, longestStreak is at least the
\* currentStreak held before the call, whatever lastActivity is.
C24_LongestCoversCurrent ==
  [][ UpdateStreak => progress'.stats.longestStreak >= progress.stats.currentStreak ]_vars

\* C25: after markChallengeCompleted returns, stats.currentStreak is at
\* least 1, whatever the tracker did earlier that day.
C25_StreakAfterCompletion ==
  [][ (origin = "fresh" /\ MarkChallengeCompleted) => progress'.stats.currentStreak >= 1 ]_vars

\* ---- C26 ----------------------------------------------------------------
\* the diagnostics the linter printed, file after file
C26_Messages ==
  IF Len(eslintStdout.files) = 0 THEN << >>
  ELSE IF Len(eslintStdout.files) = 1 THEN eslintStdout.files[1].messages
  ELSE eslintStdout.files[1].messages \o eslintStdout.files[2].messages

\* those whose rule id contains 'security'
C26_Flagged ==
  SelectSeq(C26_Messages, LAMBDA msg : msg.ruleId = "security/detect-object-injection")

\* C26: when the linter returns diagnostics, the static-analysis stage counts
\* the n diagnostics whose rule id contains 'security': the sub-score is 25
\* for n = 0 and max(0, 25 - 5n) otherwise, the check passes iff n = 0, and n
\* issues of type 'static-analysis' are appended, 'high' for an error-level
\* diagnostic and 'medium' otherwise.
C26_StaticStage ==
  ( /\ pc \in {"dependency", "finish", "done"}
    /\ eslintStdout.kind = "json"
    /\ Len(eslintStdout.files) > 0 )
  => LET n == Len(C26_Flagged)
         issues == SelectSeq(results.securityIssues,
                             LAMBDA issue : issue.type = "static-analysis")
         checks == checksNamed(results, "Static Analysis (ESLint Security)")
     IN /\ staticScore = IF n = 0 THEN 250 ELSE Max(0, 250 - 50 * n)
        /\ Cardinality(checks) = 1
        /\ \A i \in checks : results.checks[i].passed = (n = 0)
        /\ checksNamed(results, "Static Analysis") = {}
        /\ Len(issues) = n
        /\ \A i \in 1..n :
             issues[i].severity = IF C26_Flagged[i].severity = 2 THEN "high" ELSE "medium"

\* two files were linted: an error-level security diagnostic in the first, a
\* diagnostic of another rule and a warning-level security diagnostic in the
\* second
C26_Witness ==
  /\ pc = "done"
  /\ eslintStdout.kind = "json"
  /\ Len(eslintStdout.files) = 2
  /\ Len(C26_Messages) = 3
  /\ Len(C26_Flagged) = 2
  /\ staticScore = 150

\* ---- C27 ----------------------------------------------------------------
\* the 'dependency' issues of the result
C27_Issues ==
  SelectSeq(results.securityIssues, LAMBDA issue : issue.type = "dependency")

C27_NoManifest ==
  /\ pc = "done"
  /\ filePaths # << >>
  /\ ~packageJson.exists
  /\ depScore = 150

\* ---- C28 ----------------------------------------------------------------
\* C28 (as claimed): every issue of every returned result has a type in
\* {vulnerability, static-analysis, dependency} and a severity in
\* {low, medium, high}.
C28_IssueDomains ==
  pc = "done" =>
    \A i \in 1..Len(results.securityIssues) :
      /\ results.securityIssues[i].type \in {"vulnerability", "static-analysis", "dependency"}
      /\ results.securityIssues[i].severity \in {"low", "medium", "high"}

\* ---- C29 ----------------------------------------------------------------
\* C29 (as claimed): a text with no vulnerable match and at least one secure
\* match (pattern sub-score 60) passes also when the linter could not run and
\* the audit could not run.
C29_PassesWithoutTools ==
  ( /\ pc = "done"
    /\ error = "none"
    /\ hasRules(challenge.category)
    /\ vulnerableCount = 0
    /\ secureCount > 0
    /\ patternScore = 600
    /\ eslintStdout.kind \in {"empty", "nonjson"}
    /\ auditStdout.kind \in {"empty", "nonjson"} )
  => results.passed

\* ---- C30 ----------------------------------------------------------------
\* C30: a returned result with passed = true counted at most one
\* vulnerable-pattern match (pattern sub-score at least 40); a text with two
\* or more vulnerable matches never passes, whatever the tools report.
C30_PassNeedsFewMatches ==
  pc = "done" =>
    /\ results.passed =>
         /\ vulnerableCount <= 1
         /\ patternScore >= 400
         /\ countMatches(content, patternsFor(challenge.category, "vulnerable")) <= 1
    /\ countMatches(content, patternsFor(challenge.category, "vulnerable")) >= 2
         => ~results.passed

\* a text with exactly one vulnerable match has passed with 40 + 25 + 15
C30_Witness ==
  /\ pc = "done"
  /\ results.passed
  /\ countMatches(content, patternsFor(challenge.category, "vulnerable")) = 1
  /\ patternScore = 400
  /\ results.score = 800

====
